---- MODULE Spec2Model ----
(***************************************************************************)
(* State-machine model of xfuzz: the coverage map (coverage.rs), the       *)
(* simulator bridge and fuzzing harness (harness.rs), the testcase store   *)
(* (monitor.rs), the fuzzer driver (fuzzer.rs) and main (lib.rs).          *)
(* The simulator (sim_main, update_stats, get_cover_number) and the        *)
(* fuzzing engine are the environment: their results are chosen with \E.   *)
(***************************************************************************)
EXTENDS Integers, Sequences, FiniteSets, TLC

\* ------------------------------------------------------------------ bounds
MaxCover == 1
MaxWorkloads == 2
MaxRepeat == 2
MaxRunsArg == 3
MaxInvocations == 3
MaxEnvCalls == 2
ApiMaxCover == 2

\* --------------------------------------------------------- program values
\* initial value of MAX_RUNS (u64::MAX); TLC integers are 32 bit wide, so the
\* largest TLC integer stands for it: NUM_RUNS never comes near either value
U64_MAX == 2147483647
\* size of the random buffer of fuzz_harness
RANDOM_LEN == 1024

\* exit statuses of sim_main: success and two distinct failure codes
StatusValues == {0, 1, 2}
\* values update_stats leaves in one counter (a byte)
CounterValues == {0, 255}
\* values of one input byte
ByteValues == {0, 255}

\* Option: None of a number, of a string, of a list; Some
None == [some |-> FALSE, v |-> 0]
NoString == [some |-> FALSE, v |-> ""]
NoList == [some |-> FALSE, v |-> <<>>]
Some(x) == [some |-> TRUE, v |-> x]

\* A byte string (BytesInput, file content) is kept run-length encoded: the
\* byte fill repeated len times; the empty string has fill 0.
Bytes(len, fill) == [len |-> len, fill |-> IF len = 0 THEN 0 ELSE fill]
\* byte strings the engine hands to the harness: the empty input and the
\* two one-byte inputs over ByteValues
Inputs == {Bytes(0, 0)} \cup {Bytes(1, b) : b \in ByteValues}
\* buffers produced by (0..1024).map(|_| rand::random::<u8>())
RandomBuffers == {Bytes(RANDOM_LEN, b) : b \in ByteValues}
\* values of the --max-runs option
MaxRunsOpts == {None} \cup {Some(n) : n \in 0..MaxRunsArg}
\* pass-through simulator arguments
EmuArgsChoices == {<<>>, <<"--diff">>}
\* the pass-through arguments main collects from its command line
MainEmuArgs == <<"--diff">>
\* values of --corpus-output
CorpusOutputOpts == {NoString, Some("out")}

VARIABLES
    pc,                 \* position of the process: start, direct, post_direct,
                        \* corpus, loop, exited, panicked
    args,               \* main: parsed Arguments and the workload list
    rep,                \* main: index of the repeat loop
    wi,                 \* sim_run_multiple: index of the next workload
    ret,                \* sim_run_multiple: local ret
    has_failed,         \* main: has_failed
    exit_code,          \* value returned by main
    ICOVERAGE,          \* coverage.rs: OnceLock<Mutex<Coverage>>
    SIM_ARGS,           \* harness.rs: OnceLock<Mutex<Vec<String>>>
    MAX_RUNS, NUM_RUNS, USE_RANDOM_INPUT, CONTINUE_ON_ERRORS, SAVE_ERRORS,
    fs,                 \* files on disk: <<directory, filename>> -> bytes
    \* ---- history of the run, read by the properties only
    op,                 \* the operation the last step executed
    out,                \* what the last step printed and, for fuzz_harness,
                        \* did after cover_display, in order
    callRan,            \* <<workload, status>> of the runs of the current
                        \* sim_run_multiple call
    callDone,           \* the current sim_run_multiple call has returned
    runFailed,          \* some direct run returned a non-zero status
    everRaw,            \* positions some run left non-zero in cover_points
    lastStatus,         \* status of the last sim_run
    lastRaw,            \* counters update_stats wrote after the last sim_main
    harnessCalls,       \* number of fuzz_harness invocations
    harnessFailed,      \* some fuzz_harness run returned a non-zero status
    lastInput,          \* bytes the engine passed to the last fuzz_harness
    lastEffective,      \* bytes the last fuzz_harness ran
    verdict,            \* outcome of the last fuzz_harness: Ok, Crash, Budget
    stored,             \* store_testcase in the last fuzz_harness: none,
                        \* new (no such file before), again (file rewritten)
    envCalls,           \* number of set_sim_env calls
    \* ---- threads calling into the crate at once (SpecConc)
    threads,            \* position and locals of every thread
    mutex               \* holder of the mutex of ICOVERAGE and of SIM_ARGS

vars == <<pc, args, rep, wi, ret, has_failed, exit_code, ICOVERAGE,
          SIM_ARGS, MAX_RUNS, NUM_RUNS, USE_RANDOM_INPUT, CONTINUE_ON_ERRORS,
          SAVE_ERRORS, fs, op, out, callRan, callDone, runFailed, everRaw,
          lastStatus, lastRaw, harnessCalls, harnessFailed, lastInput,
          lastEffective, verdict, stored, envCalls, threads, mutex>>

cfgVars == <<SIM_ARGS, MAX_RUNS, envCalls>>
flagVars == <<USE_RANDOM_INPUT, CONTINUE_ON_ERRORS, SAVE_ERRORS>>
mainVars == <<args, rep, wi, ret, has_failed, exit_code>>
directHist == <<callRan, callDone, runFailed>>
rawHist == <<everRaw, lastRaw>>
concVars == <<threads, mutex>>
harnessHist == <<harnessCalls, harnessFailed, lastInput, lastEffective,
                 verdict, stored>>

\* ------------------------------------------------------------ coverage.rs
\* ICOVERAGE before cover_init
Unset == [set |-> FALSE, cover_points |-> <<>>, accumulated |-> <<>>]

\* Coverage::new
CoverageNew(n) ==
    [set |-> TRUE, cover_points |-> [i \in 1..n |-> 0],
     accumulated |-> [i \in 1..n |-> 0]]

\* Coverage::len
CoverLen(c) == Len(c.cover_points)

\* Coverage::accumulate as a hit counter: a covered position is incremented
AccumulateCount(c) ==
    [c EXCEPT !.accumulated =
        [i \in 1..Len(c.accumulated) |->
            IF c.cover_points[i] # 0 THEN c.accumulated[i] + 1
            ELSE c.accumulated[i]]]

\* Coverage::accumulate
Accumulate(c) ==
    [c EXCEPT !.accumulated =
        [i \in 1..Len(c.accumulated) |->
            IF c.cover_points[i] # 0 THEN 1 ELSE c.accumulated[i]]]

\* Coverage::get_accumulative_coverage, as {:.3} prints it: thousandths of a
\* percent rounded to nearest, NaN for 0.0 / 0.0
GetAccumulativeCoverage(c) ==
    LET covered_num == Cardinality({i \in 1..Len(c.accumulated) :
                                        c.accumulated[i] # 0})
        len == CoverLen(c)
    IN  IF len = 0 THEN [nan |-> TRUE, milli |-> 0]
        ELSE [nan |-> FALSE,
              milli |-> (2 * 100000 * covered_num + len) \div (2 * len)]

\* Coverage::display
Display(c) == [ev |-> "coverage", pct |-> GetAccumulativeCoverage(c)]

\* an observer built over the accumulated buffer
ObservedAccumulated(c) == c.accumulated

\* the array the observer "signals" of run_fuzzer reads: it is built from
\* cover_as_mut_ptr(), the address of cover_points, and cover_len()
Observed(c) == c.cover_points

\* cover_init replacing the map on every call
CoverInitReset(cur, n) == CoverageNew(n)

\* cover_init: OnceLock::set keeps the first value
CoverInit(cur, n) == IF cur.set THEN cur ELSE CoverageNew(n)

\* ------------------------------------------------------------- harness.rs
\* update_stats(cover_as_mut_ptr()): the simulator writes its counters
UpdateStats(c, raw) == [c EXCEPT !.cover_points = raw]

\* sim_run returning early, without the merge, when the run failed
SimRunSkipOnFailure(c, st, raw) ==
    [ret |-> st,
     cov |-> IF st # 0 THEN UpdateStats(c, raw)
             ELSE Accumulate(UpdateStats(c, raw))]

\* sim_run: sim_main returned st and left the counters raw
SimRun(c, st, raw) == [ret |-> st, cov |-> Accumulate(UpdateStats(c, raw))]

\* what the simulator can leave in the counters of c
RawVectors(c) == [1..CoverLen(c) -> CounterValues]

\* positions of raw that are covered
NonZero(raw) == {i \in 1..Len(raw) : raw[i] # 0}

\* ------------------------------------------------------------- monitor.rs
\* format!("{:x}", md5(bytes)) of the byte strings of Inputs (the digests
\* are those md5 computes for "", 0x00 and 0xff)
Md5Hex(bytes) ==
    CASE bytes = Bytes(0, 0)   -> "d41d8cd98f00b204e9800998ecf8427e"
      [] bytes = Bytes(1, 0)   -> "93b885adfe0da089cdf634904fd59f71"
      [] bytes = Bytes(1, 255) -> "00594fd4f42ba43fc1ca0427a0576295"

\* id.to_string() of a corpus id
IdToString(id) ==
    CASE id = 0 -> "0" [] id = 1 -> "1" [] id = 2 -> "2" [] id = 3 -> "3"

\* store_testcase naming an unnamed file after the length of its content
StoreTestcaseByLength(files, input, output_dir, name) ==
    LET filename == IF name.some THEN name.v ELSE IdToString(input.len)
        path == <<output_dir, filename>>
    IN  [p \in DOMAIN files \cup {path} |->
            IF p = path THEN input ELSE files[p]]

\* store_testcase: create the directory, pick the file name, write the bytes
StoreTestcase(files, input, output_dir, name) ==
    LET filename == IF name.some THEN name.v ELSE Md5Hex(input)
        path == <<output_dir, filename>>
    IN  [p \in DOMAIN files \cup {path} |->
            IF p = path THEN input ELSE files[p]]

\* store_testcases: every corpus entry is stored under its id
RECURSIVE StoreTestcases(_, _, _, _)
StoreTestcases(files, corpus, id, output_dir) ==
    IF id >= Len(corpus) THEN files
    ELSE StoreTestcases(
            StoreTestcase(files, corpus[id + 1], output_dir,
                          Some(IdToString(id))),
            corpus, id + 1, output_dir)

\* corpora the engine can hold when the fuzzing loop ends: of the inputs it
\* executed, none or the last one
Corpora(last) == {<<>>, <<last>>}

\* ---------------------------------------------------- harness.rs, continued
\* sim_run_multiple keeping the status of the first failure
SimRunMultipleRetFirst(prev, st) == IF prev # 0 THEN prev ELSE st

\* sim_run_multiple: ret = sim_run(workload)
SimRunMultipleRet(prev, st) == st

\* sim_run_multiple without the break
LoopBreaksNever(st, auto_exit) == FALSE

\* sim_run_multiple: the loop is left after this run
LoopBreaks(st, auto_exit) == st # 0 /\ auto_exit

\* sim_run_multiple printing nothing for a failing run
AbnormalExitSilent(workload, st) == <<>>

\* sim_run_multiple: what a run prints
AbnormalExit(workload, st) ==
    IF st # 0 THEN <<[ev |-> "abnormal", workload |-> workload, code |-> st]>>
    ELSE <<>>

\* fuzz_harness: the random buffer, generated in random-input mode only
RandomBytes(use_random) ==
    IF use_random THEN RandomBuffers ELSE {Bytes(0, 0)}

\* fuzz_harness running the bytes of the engine whatever the mode
EffectiveInputVerbatim(use_random, input, random_bytes) == input

\* fuzz_harness: the bytes that are run
EffectiveInput(use_random, input, random_bytes) ==
    IF use_random THEN random_bytes ELSE input

Uncovered == [ev |-> "display_uncovered_points"]
Println(msg) == [ev |-> "println", msg |-> msg]
Panic(msg) == [ev |-> "panic", msg |-> msg]

\* fuzz_harness: what it does besides printing, in the order it does it
Stored == [ev |-> "store_testcase"]
Counted == [ev |-> "NUM_RUNS += 1"]

\* fuzz_harness saving the failing testcase before the crash check
FuzzHarnessOutcomeSaveFirst(st, input, coe, se, nr, mr, files) ==
    LET do_panic == ~coe /\ st # 0
        do_save == se /\ st # 0
        saved == IF do_save
                 THEN StoreTestcase(files, input, "errors", NoString)
                 ELSE files
        save_ev == IF do_save THEN <<Stored>> ELSE <<>>
        num_runs == nr + 1
        do_exit == num_runs >= mr
    IN  IF do_panic
        THEN [verdict |-> "Crash", NUM_RUNS |-> nr, fs |-> saved,
              stored |-> do_save,
              out |-> save_ev \o <<Uncovered, Panic("<<<<<< Bug triggered >>>>>>")>>]
        ELSE IF do_exit
        THEN [verdict |-> "Budget", NUM_RUNS |-> num_runs, fs |-> saved,
              stored |-> do_save,
              out |-> save_ev \o <<Counted>> \o
                      <<Println("Exit due to max_runs == 0"), Uncovered,
                        Panic("Exit due to max_runs == 0")>>]
        ELSE [verdict |-> "Ok", NUM_RUNS |-> num_runs, fs |-> saved,
              stored |-> do_save, out |-> save_ev \o <<Counted>>]

\* fuzz_harness counting the run before the crash check
FuzzHarnessOutcomeCountFirst(st, input, coe, se, nr, mr, files) ==
    LET do_panic == ~coe /\ st # 0
        do_save == se /\ st # 0
        saved == IF do_save
                 THEN StoreTestcase(files, input, "errors", NoString)
                 ELSE files
        save_ev == IF do_save THEN <<Stored>> ELSE <<>>
        num_runs == nr + 1
        do_exit == num_runs >= mr
    IN  IF do_panic
        THEN [verdict |-> "Crash", NUM_RUNS |-> num_runs, fs |-> files,
              stored |-> FALSE,
              out |-> <<Counted, Uncovered, Panic("<<<<<< Bug triggered >>>>>>")>>]
        ELSE IF do_exit
        THEN [verdict |-> "Budget", NUM_RUNS |-> num_runs, fs |-> saved,
              stored |-> do_save,
              out |-> <<Counted>> \o save_ev \o
                      <<Println("Exit due to max_runs == 0"), Uncovered,
                        Panic("Exit due to max_runs == 0")>>]
        ELSE [verdict |-> "Ok", NUM_RUNS |-> num_runs, fs |-> saved,
              stored |-> do_save, out |-> <<Counted>> \o save_ev]

\* fuzz_harness stopping only once NUM_RUNS exceeds MAX_RUNS
FuzzHarnessOutcomeStrict(st, input, coe, se, nr, mr, files) ==
    LET do_panic == ~coe /\ st # 0
        do_save == se /\ st # 0
        saved == IF do_save
                 THEN StoreTestcase(files, input, "errors", NoString)
                 ELSE files
        save_ev == IF do_save THEN <<Stored>> ELSE <<>>
        num_runs == nr + 1
        do_exit == num_runs > mr
    IN  IF do_panic
        THEN [verdict |-> "Crash", NUM_RUNS |-> nr, fs |-> files,
              stored |-> FALSE,
              out |-> <<Uncovered, Panic("<<<<<< Bug triggered >>>>>>")>>]
        ELSE IF do_exit
        THEN [verdict |-> "Budget", NUM_RUNS |-> num_runs, fs |-> saved,
              stored |-> do_save,
              out |-> save_ev \o <<Counted>> \o
                      <<Println("Exit due to max_runs == 0"), Uncovered,
                        Panic("Exit due to max_runs == 0")>>]
        ELSE [verdict |-> "Ok", NUM_RUNS |-> num_runs, fs |-> saved,
              stored |-> do_save, out |-> save_ev \o <<Counted>>]

\* fuzz_harness counting the run and checking the budget before the crash
\* check
FuzzHarnessOutcomeBudgetFirst(st, input, coe, se, nr, mr, files) ==
    LET do_panic == ~coe /\ st # 0
        do_save == se /\ st # 0
        saved == IF do_save
                 THEN StoreTestcase(files, input, "errors", NoString)
                 ELSE files
        save_ev == IF do_save THEN <<Stored>> ELSE <<>>
        num_runs == nr + 1
        do_exit == num_runs >= mr
    IN  IF do_exit
        THEN [verdict |-> "Budget", NUM_RUNS |-> num_runs, fs |-> files,
              stored |-> FALSE,
              out |-> <<Counted>> \o
                      <<Println("Exit due to max_runs == 0"), Uncovered,
                        Panic("Exit due to max_runs == 0")>>]
        ELSE IF do_panic
        THEN [verdict |-> "Crash", NUM_RUNS |-> num_runs, fs |-> files,
              stored |-> FALSE,
              out |-> <<Counted, Uncovered, Panic("<<<<<< Bug triggered >>>>>>")>>]
        ELSE [verdict |-> "Ok", NUM_RUNS |-> num_runs, fs |-> saved,
              stored |-> do_save, out |-> <<Counted>> \o save_ev]

\* fuzz_harness saving the failing testcase after the budget check
FuzzHarnessOutcomeSaveLast(st, input, coe, se, nr, mr, files) ==
    LET do_panic == ~coe /\ st # 0
        do_save == se /\ st # 0
        saved == IF do_save
                 THEN StoreTestcase(files, input, "errors", NoString)
                 ELSE files
        save_ev == IF do_save THEN <<Stored>> ELSE <<>>
        num_runs == nr + 1
        do_exit == num_runs >= mr
    IN  IF do_panic
        THEN [verdict |-> "Crash", NUM_RUNS |-> nr, fs |-> files,
              stored |-> FALSE,
              out |-> <<Uncovered, Panic("<<<<<< Bug triggered >>>>>>")>>]
        ELSE IF do_exit
        THEN [verdict |-> "Budget", NUM_RUNS |-> num_runs, fs |-> files,
              stored |-> FALSE,
              out |-> <<Counted>> \o
                      <<Println("Exit due to max_runs == 0"), Uncovered,
                        Panic("Exit due to max_runs == 0")>>]
        ELSE [verdict |-> "Ok", NUM_RUNS |-> num_runs, fs |-> saved,
              stored |-> do_save, out |-> <<Counted>> \o save_ev]

\* fuzz_harness after cover_display: st is the status of the run, input the
\* bytes the engine passed, coe/se the flags, nr/mr NUM_RUNS and MAX_RUNS;
\* out lists what is printed and done, in order
FuzzHarnessOutcome(st, input, coe, se, nr, mr, files) ==
    LET do_panic == ~coe /\ st # 0
        do_save == se /\ st # 0
        saved == IF do_save
                 THEN StoreTestcase(files, input, "errors", NoString)
                 ELSE files
        save_ev == IF do_save THEN <<Stored>> ELSE <<>>
        num_runs == nr + 1
        do_exit == num_runs >= mr
    IN  IF do_panic
        THEN [verdict |-> "Crash", NUM_RUNS |-> nr, fs |-> files,
              stored |-> FALSE,
              out |-> <<Uncovered, Panic("<<<<<< Bug triggered >>>>>>")>>]
        ELSE IF do_exit
        THEN [verdict |-> "Budget", NUM_RUNS |-> num_runs, fs |-> saved,
              stored |-> do_save,
              out |-> save_ev \o <<Counted>> \o
                      <<Println("Exit due to max_runs == 0"), Uncovered,
                        Panic("Exit due to max_runs == 0")>>]
        ELSE [verdict |-> "Ok", NUM_RUNS |-> num_runs, fs |-> saved,
              stored |-> do_save, out |-> save_ev \o <<Counted>>]

\* set_sim_env: MAX_RUNS is written when --max-runs is given
SetMaxRuns(cur, max_runs) == IF max_runs.some THEN max_runs.v ELSE cur

\* set_sim_env: SIM_ARGS.set keeps the first value
SetSimArgs(cur, emu_args) == IF cur.some THEN cur ELSE Some(emu_args)

\* ------------------------------------------------------------------ lib.rs
\* workload lists: w1 .. wn
WorkloadLists == {[i \in 1..n |-> i] : n \in 0..MaxWorkloads}

\* the Arguments main reads before set_sim_env and in its loop; --fuzzing
\* and the options of the fuzzer are drawn where main and run_fuzzer first
\* read them
ArgumentsSet ==
    [workloads : WorkloadLists, repeat : 0..MaxRepeat, auto_exit : BOOLEAN]

\* the locals of main once its loop is over
Moved == [workloads |-> <<>>, repeat |-> 0, auto_exit |-> FALSE]

\* the locals of main inside run_fuzzer: args.random_input, passed to
\* run_fuzzer, is read once the initial corpus has been executed
FuzzerArgs(random_input) ==
    [workloads |-> <<>>, repeat |-> 0, auto_exit |-> FALSE,
     random_input |-> random_input]

\* no thread but main: nothing is locked between two steps of main
NoThreads == <<>>
Unlocked == [ICOVERAGE |-> "none", SIM_ARGS |-> "none"]

Init ==
    /\ pc = "start"
    /\ args \in ArgumentsSet
    /\ rep = 0 /\ wi = 1 /\ ret = 0
    /\ has_failed = 0
    /\ exit_code = 0
    /\ ICOVERAGE = Unset
    /\ SIM_ARGS = NoList
    /\ MAX_RUNS = U64_MAX /\ NUM_RUNS = 0
    /\ USE_RANDOM_INPUT = FALSE
    /\ CONTINUE_ON_ERRORS = FALSE
    /\ SAVE_ERRORS = FALSE
    /\ fs = <<>>
    /\ op = "none" /\ out = <<>>
    /\ callRan = <<>> /\ callDone = FALSE /\ runFailed = FALSE
    /\ everRaw = {}
    /\ lastStatus = 0 /\ lastRaw = <<>>
    /\ harnessCalls = 0 /\ harnessFailed = FALSE
    /\ lastInput = Bytes(0, 0) /\ lastEffective = Bytes(0, 0)
    /\ verdict = "none"
    /\ stored = "none"
    /\ envCalls = 0
    /\ threads = NoThreads /\ mutex = Unlocked

\* set_sim_env(coverage, verbose, max_runs, emu_args); n is the answer of
\* get_cover_number
SetSimEnv(max_runs, emu_args, n) ==
    /\ MAX_RUNS' = SetMaxRuns(MAX_RUNS, max_runs)
    /\ SIM_ARGS' = SetSimArgs(SIM_ARGS, emu_args)
    /\ ICOVERAGE' = CoverInit(ICOVERAGE, n)
    /\ envCalls' = envCalls + 1
    /\ op' = "set_sim_env"
    /\ out' = <<>>

\* main up to and including its call of set_sim_env
MainSetSimEnv ==
    /\ pc = "start"
    /\ UNCHANGED concVars
    /\ \E max_runs \in MaxRunsOpts, n \in 0..MaxCover :
          SetSimEnv(max_runs, MainEmuArgs, n)
    /\ pc' = IF Len(args.workloads) > 0 THEN "direct" ELSE "post_direct"
    /\ UNCHANGED <<mainVars, NUM_RUNS, flagVars, fs, directHist, rawHist,
                   lastStatus, harnessHist>>

\* main: one iteration of the loop of sim_run_multiple, and, when the call
\* returns, what main does with the returned value
DirectRun ==
    /\ pc = "direct"
    /\ UNCHANGED concVars
    /\ rep < args.repeat
    /\ \E st \in StatusValues, raw \in RawVectors(ICOVERAGE) :
        LET workload == args.workloads[wi]
            r == SimRun(ICOVERAGE, st, raw)
            newret == SimRunMultipleRet(ret, r.ret)
            returns == LoopBreaks(r.ret, args.auto_exit)
                          \/ wi = Len(args.workloads)
            failed == IF newret # 0 THEN 1 ELSE has_failed
            early == newret # 0 /\ args.auto_exit
            last == rep + 1 >= args.repeat
        IN  /\ ICOVERAGE' = r.cov
            /\ ret' = newret
            /\ lastStatus' = r.ret
            /\ everRaw' = everRaw \cup NonZero(raw)
            /\ lastRaw' = raw
            /\ runFailed' = (runFailed \/ r.ret # 0)
            /\ callRan' = IF wi = 1 THEN <<<<workload, r.ret>>>>
                          ELSE Append(callRan, <<workload, r.ret>>)
            /\ callDone' = returns
            /\ op' = "sim_run_multiple"
            /\ IF ~returns
               THEN /\ wi' = wi + 1
                    /\ out' = AbnormalExit(workload, r.ret)
                    /\ UNCHANGED <<pc, rep, has_failed, exit_code>>
               ELSE /\ wi' = 1
                    /\ has_failed' = failed
                    /\ IF early
                       THEN /\ pc' = "exited"
                            /\ exit_code' = newret
                            /\ out' = AbnormalExit(workload, r.ret)
                            /\ UNCHANGED rep
                       ELSE IF ~last
                       THEN /\ rep' = rep + 1
                            /\ out' = AbnormalExit(workload, r.ret)
                            /\ UNCHANGED <<pc, exit_code>>
                       ELSE /\ rep' = rep + 1
                            /\ pc' = "post_direct"
                            /\ out' = AbnormalExit(workload, r.ret)
                                        \o <<Display(r.cov)>>
                            /\ UNCHANGED exit_code
    /\ UNCHANGED <<args, cfgVars, NUM_RUNS, flagVars, fs, harnessHist>>

\* main with --repeat 0: the loop body never runs, cover_display is called
DirectSkip ==
    /\ pc = "direct"
    /\ UNCHANGED concVars
    /\ rep >= args.repeat
    /\ pc' = "post_direct"
    /\ op' = "cover_display"
    /\ out' = <<Display(ICOVERAGE)>>
    /\ UNCHANGED <<mainVars, ICOVERAGE, cfgVars, NUM_RUNS, flagVars, fs,
                   directHist, rawHist, lastStatus, harnessHist>>

\* main without --fuzzing (args.fuzzing is false): return has_failed
MainReturn ==
    /\ pc = "post_direct"
    /\ UNCHANGED concVars
    /\ pc' = "exited"
    /\ exit_code' = has_failed
    /\ op' = "main_return"
    /\ out' = <<>>
    /\ UNCHANGED <<args, rep, wi, ret, has_failed, ICOVERAGE, cfgVars,
                   NUM_RUNS, flagVars, fs, directHist, rawHist, lastStatus,
                   harnessHist>>

\* --------------------------------------------------------------- fuzzer.rs
\* main with --fuzzing calls run_fuzzer: up to the loading of the initial
\* corpus, the observer is built and the two flags are raised when their
\* parameters are set.  Of the locals of main only args.random_input is
\* read again.
RunFuzzerStart ==
    /\ pc = "post_direct"
    /\ UNCHANGED concVars
    /\ \E continue_on_errors \in BOOLEAN, save_errors \in BOOLEAN :
        /\ CONTINUE_ON_ERRORS' = (CONTINUE_ON_ERRORS \/ continue_on_errors)
        /\ SAVE_ERRORS' = (SAVE_ERRORS \/ save_errors)
    /\ \E random_input \in BOOLEAN : args' = FuzzerArgs(random_input)
    /\ pc' = "corpus"
    /\ op' = "run_fuzzer"
    /\ out' = <<>>
    /\ rep' = 0 /\ wi' = 1 /\ ret' = 0
    /\ callRan' = <<>> /\ callDone' = FALSE /\ runFailed' = FALSE
    /\ UNCHANGED <<has_failed, exit_code, ICOVERAGE, cfgVars, NUM_RUNS,
                   USE_RANDOM_INPUT, fs, rawHist, lastStatus, harnessHist>>

\* fuzz_harness(input), called by the engine for an initial input or inside
\* the fuzzing loop; st and raw are what the simulator does with the bytes
FuzzHarness ==
    /\ pc \in {"corpus", "loop"}
    /\ UNCHANGED concVars
    /\ harnessCalls < MaxInvocations
    /\ \E input \in Inputs, random_bytes \in RandomBytes(USE_RANDOM_INPUT),
          st \in StatusValues, raw \in RawVectors(ICOVERAGE) :
        LET b == EffectiveInput(USE_RANDOM_INPUT, input, random_bytes)
            r == SimRun(ICOVERAGE, st, raw)
            o == FuzzHarnessOutcome(r.ret, input, CONTINUE_ON_ERRORS,
                                    SAVE_ERRORS, NUM_RUNS, MAX_RUNS, fs)
        IN  /\ ICOVERAGE' = r.cov
            /\ everRaw' = everRaw \cup NonZero(raw)
            /\ lastRaw' = raw
            /\ lastStatus' = r.ret
            /\ lastInput' = input
            /\ lastEffective' = b
            /\ harnessCalls' = harnessCalls + 1
            /\ harnessFailed' = (harnessFailed \/ r.ret # 0)
            /\ out' = <<Display(r.cov)>> \o o.out
            /\ NUM_RUNS' = o.NUM_RUNS
            /\ fs' = o.fs
            /\ stored' = IF ~o.stored THEN "none"
                         ELSE IF DOMAIN o.fs = DOMAIN fs THEN "again"
                         ELSE "new"
            /\ verdict' = o.verdict
            /\ pc' = IF o.verdict = "Ok" THEN pc ELSE "panicked"
    /\ op' = "fuzz_harness"
    /\ UNCHANGED <<mainVars, cfgVars, flagVars, directHist>>

\* run_fuzzer after the initial corpus has been executed: random-input mode
\* is switched on when random_input is set, then the fuzzing loop starts
CorpusDone ==
    /\ pc = "corpus"
    /\ UNCHANGED concVars
    /\ harnessCalls >= 1
    /\ USE_RANDOM_INPUT' = (USE_RANDOM_INPUT \/ args.random_input)
    /\ out' = IF args.random_input
              THEN <<Println("We are using random input bytes")>>
              ELSE <<>>
    /\ pc' = "loop"
    /\ op' = "corpus_done"
    /\ UNCHANGED <<mainVars, ICOVERAGE, cfgVars, NUM_RUNS,
                   CONTINUE_ON_ERRORS, SAVE_ERRORS, fs, directHist, rawHist,
                   lastStatus, harnessHist>>

\* fuzz_loop_for returns after max_iters iterations: the corpus is exported
\* when corpus_output is given, run_fuzzer returns and main returns
\* has_failed
FuzzLoopEnd ==
    /\ pc = "loop"
    /\ UNCHANGED concVars
    /\ \E corpus \in Corpora(lastInput), corpus_output \in CorpusOutputOpts :
        fs' = IF corpus_output.some
              THEN StoreTestcases(fs, corpus, 0, corpus_output.v)
              ELSE fs
    /\ pc' = "exited"
    /\ exit_code' = has_failed
    /\ op' = "store_testcases"
    /\ out' = <<>>
    /\ UNCHANGED <<args, rep, wi, ret, has_failed, ICOVERAGE, cfgVars,
                   NUM_RUNS, flagVars, directHist, rawHist, lastStatus,
                   harnessHist>>

Next ==
    \/ MainSetSimEnv
    \/ DirectRun
    \/ DirectSkip
    \/ MainReturn
    \/ RunFuzzerStart
    \/ FuzzHarness
    \/ CorpusDone
    \/ FuzzLoopEnd

Spec == Init /\ [][Next]_vars

TypeOK ==
    /\ pc \in {"start", "direct", "post_direct", "corpus", "loop", "exited",
               "panicked", "api", "conc"}
    /\ NUM_RUNS \in 0..MaxInvocations
    /\ verdict \in {"none", "Ok", "Crash", "Budget"}

\* ------------------------------------------------------------------------
\* The functions of coverage.rs and harness.rs called in any order, as the
\* crate can call them: set_sim_env (again and again), sim_run,
\* cover_accumulate and cover_display.
InitApi ==
    /\ pc = "api"
    /\ args = Moved
    /\ rep = 0 /\ wi = 1 /\ ret = 0
    /\ has_failed = 0
    /\ exit_code = 0
    /\ ICOVERAGE = Unset
    /\ SIM_ARGS = NoList
    /\ MAX_RUNS = U64_MAX /\ NUM_RUNS = 0
    /\ USE_RANDOM_INPUT = FALSE
    /\ CONTINUE_ON_ERRORS = FALSE
    /\ SAVE_ERRORS = FALSE
    /\ fs = <<>>
    /\ op = "none" /\ out = <<>>
    /\ callRan = <<>> /\ callDone = FALSE /\ runFailed = FALSE
    /\ everRaw = {}
    /\ lastStatus = 0 /\ lastRaw = <<>>
    /\ harnessCalls = 0 /\ harnessFailed = FALSE
    /\ lastInput = Bytes(0, 0) /\ lastEffective = Bytes(0, 0)
    /\ verdict = "none"
    /\ stored = "none"
    /\ envCalls = 0
    /\ threads = NoThreads /\ mutex = Unlocked

apiFrame == <<mainVars, NUM_RUNS, flagVars, fs, directHist, harnessHist>>

\* set_sim_env, the first call or a later one
ApiSetSimEnv ==
    /\ pc = "api"
    /\ UNCHANGED concVars
    /\ envCalls < MaxEnvCalls
    /\ \E max_runs \in MaxRunsOpts, emu_args \in EmuArgsChoices,
          n \in 0..ApiMaxCover : SetSimEnv(max_runs, emu_args, n)
    /\ UNCHANGED <<pc, apiFrame, rawHist, lastStatus>>

\* sim_run; before set_sim_env SIM_ARGS.get().expect(..) panics
ApiSimRun ==
    /\ pc = "api"
    /\ UNCHANGED concVars
    /\ op' = "sim_run"
    /\ IF ~SIM_ARGS.some
       THEN /\ pc' = "panicked"
            /\ out' = <<Panic("SIM_ARGS not initialized")>>
            /\ UNCHANGED <<ICOVERAGE, rawHist, lastStatus>>
       ELSE /\ \E st \in StatusValues, raw \in RawVectors(ICOVERAGE) :
                LET r == SimRun(ICOVERAGE, st, raw)
                IN  /\ ICOVERAGE' = r.cov
                    /\ lastStatus' = r.ret
                    /\ everRaw' = everRaw \cup NonZero(raw)
                    /\ lastRaw' = raw
            /\ out' = <<>>
            /\ UNCHANGED pc
    /\ UNCHANGED <<apiFrame, cfgVars>>

\* cover_accumulate; before cover_init cov() panics
ApiCoverAccumulate ==
    /\ pc = "api"
    /\ UNCHANGED concVars
    /\ op' = "cover_accumulate"
    /\ IF ~ICOVERAGE.set
       THEN /\ pc' = "panicked"
            /\ out' = <<Panic("cover_init() not called")>>
            /\ UNCHANGED ICOVERAGE
       ELSE /\ ICOVERAGE' = Accumulate(ICOVERAGE)
            /\ out' = <<>>
            /\ UNCHANGED pc
    /\ UNCHANGED <<apiFrame, cfgVars, rawHist, lastStatus>>

\* cover_display; before cover_init cov() panics
ApiCoverDisplay ==
    /\ pc = "api"
    /\ UNCHANGED concVars
    /\ op' = "cover_display"
    /\ IF ~ICOVERAGE.set
       THEN /\ pc' = "panicked"
            /\ out' = <<Panic("cover_init() not called")>>
       ELSE /\ out' = <<Display(ICOVERAGE)>>
            /\ UNCHANGED pc
    /\ UNCHANGED <<ICOVERAGE, apiFrame, cfgVars, rawHist, lastStatus>>

NextApi ==
    \/ ApiSetSimEnv
    \/ ApiSimRun
    \/ ApiCoverAccumulate
    \/ ApiCoverDisplay

SpecApi == InitApi /\ [][NextApi]_vars

\* ------------------------------------------------------------------------
\* sim_run and cover_display called from several threads at once, after
\* set_sim_env: two threads that call sim_run and one that calls
\* cover_display.  A step is what a thread does between two operations on a
\* mutex; mutex names the thread that holds each of the two mutexes.
Runners == {"run1", "run2"}
Reporter == "report"
Threads == Runners \cup {Reporter}

InitConc ==
    /\ pc = "conc"
    /\ args = Moved
    /\ rep = 0 /\ wi = 1 /\ ret = 0
    /\ has_failed = 0
    /\ exit_code = 0
    /\ ICOVERAGE \in {CoverageNew(n) : n \in 0..ApiMaxCover}
    /\ SIM_ARGS \in {Some(a) : a \in EmuArgsChoices}
    /\ MAX_RUNS = U64_MAX /\ NUM_RUNS = 0
    /\ USE_RANDOM_INPUT = FALSE
    /\ CONTINUE_ON_ERRORS = FALSE
    /\ SAVE_ERRORS = FALSE
    /\ fs = <<>>
    /\ op = "set_sim_env" /\ out = <<>>
    /\ callRan = <<>> /\ callDone = FALSE /\ runFailed = FALSE
    /\ everRaw = {}
    /\ lastStatus = 0 /\ lastRaw = <<>>
    /\ harnessCalls = 0 /\ harnessFailed = FALSE
    /\ lastInput = Bytes(0, 0) /\ lastEffective = Bytes(0, 0)
    /\ verdict = "none"
    /\ stored = "none"
    /\ envCalls = 1
    /\ threads = [t \in Threads |-> [pc |-> "idle", ret |-> 0]]
    /\ mutex = Unlocked

concFrame == <<pc, mainVars, cfgVars, NUM_RUNS, flagVars, fs, directHist,
               harnessHist>>

\* sim_run: let guard = SIM_ARGS.get().expect(..).lock().unwrap(); the guard
\* lives until sim_run returns
ConcLockArgs(t) ==
    /\ threads[t].pc = "idle"
    /\ mutex.SIM_ARGS = "none"
    /\ mutex' = [mutex EXCEPT !.SIM_ARGS = t]
    /\ threads' = [threads EXCEPT ![t].pc = "args"]
    /\ op' = "SIM_ARGS.lock"
    /\ out' = <<>>
    /\ UNCHANGED <<concFrame, ICOVERAGE, rawHist, lastStatus>>

\* sim_run: let ret = sim_main(..)
ConcSimMain(t) ==
    /\ threads[t].pc = "args"
    /\ \E st \in StatusValues :
          threads' = [threads EXCEPT ![t] = [pc |-> "ran", ret |-> st]]
    /\ op' = "sim_main"
    /\ out' = <<>>
    /\ UNCHANGED <<concFrame, ICOVERAGE, rawHist, lastStatus, mutex>>

\* cover_as_mut_ptr: let guard = cov()
ConcViewLock(t) ==
    /\ threads[t].pc = "ran"
    /\ mutex.ICOVERAGE = "none"
    /\ mutex' = [mutex EXCEPT !.ICOVERAGE = t]
    /\ threads' = [threads EXCEPT ![t].pc = "view_locked"]
    /\ op' = "cov"
    /\ out' = <<>>
    /\ UNCHANGED <<concFrame, ICOVERAGE, rawHist, lastStatus>>

\* cover_as_mut_ptr returns the pointer: its guard is dropped
ConcViewReturn(t) ==
    /\ threads[t].pc = "view_locked"
    /\ mutex' = [mutex EXCEPT !.ICOVERAGE = "none"]
    /\ threads' = [threads EXCEPT ![t].pc = "viewed"]
    /\ op' = "cover_as_mut_ptr"
    /\ out' = <<>>
    /\ UNCHANGED <<concFrame, ICOVERAGE, rawHist, lastStatus>>

\* sim_run: update_stats(pointer) writes the counters of the run through the
\* pointer; no mutex is taken
ConcUpdateStats(t) ==
    /\ threads[t].pc = "viewed"
    /\ \E raw \in RawVectors(ICOVERAGE) :
        /\ ICOVERAGE' = UpdateStats(ICOVERAGE, raw)
        /\ lastRaw' = raw
        /\ everRaw' = everRaw \cup NonZero(raw)
    /\ threads' = [threads EXCEPT ![t].pc = "written"]
    /\ op' = "update_stats"
    /\ out' = <<>>
    /\ UNCHANGED <<concFrame, lastStatus, mutex>>

\* cover_accumulate: cov()
ConcMergeLock(t) ==
    /\ threads[t].pc = "written"
    /\ mutex.ICOVERAGE = "none"
    /\ mutex' = [mutex EXCEPT !.ICOVERAGE = t]
    /\ threads' = [threads EXCEPT ![t].pc = "merge_locked"]
    /\ op' = "cov"
    /\ out' = <<>>
    /\ UNCHANGED <<concFrame, ICOVERAGE, rawHist, lastStatus>>

\* cover_accumulate: accumulate(), then the guard is dropped
ConcMerge(t) ==
    /\ threads[t].pc = "merge_locked"
    /\ ICOVERAGE' = Accumulate(ICOVERAGE)
    /\ mutex' = [mutex EXCEPT !.ICOVERAGE = "none"]
    /\ threads' = [threads EXCEPT ![t].pc = "merged"]
    /\ op' = "cover_accumulate"
    /\ out' = <<>>
    /\ UNCHANGED <<concFrame, rawHist, lastStatus>>

\* sim_run returns ret: the guard of SIM_ARGS is dropped
ConcReturn(t) ==
    /\ threads[t].pc = "merged"
    /\ mutex' = [mutex EXCEPT !.SIM_ARGS = "none"]
    /\ threads' = [threads EXCEPT ![t].pc = "idle"]
    /\ lastStatus' = threads[t].ret
    /\ op' = "sim_run"
    /\ out' = <<>>
    /\ UNCHANGED <<concFrame, ICOVERAGE, rawHist>>

\* cover_display: cov()
ConcDisplayLock ==
    /\ threads[Reporter].pc = "idle"
    /\ mutex.ICOVERAGE = "none"
    /\ mutex' = [mutex EXCEPT !.ICOVERAGE = Reporter]
    /\ threads' = [threads EXCEPT ![Reporter].pc = "display_locked"]
    /\ op' = "cov"
    /\ out' = <<>>
    /\ UNCHANGED <<concFrame, ICOVERAGE, rawHist, lastStatus>>

\* cover_display: display(), then the guard is dropped
ConcDisplay ==
    /\ threads[Reporter].pc = "display_locked"
    /\ mutex' = [mutex EXCEPT !.ICOVERAGE = "none"]
    /\ threads' = [threads EXCEPT ![Reporter].pc = "idle"]
    /\ op' = "cover_display"
    /\ out' = <<Display(ICOVERAGE)>>
    /\ UNCHANGED <<concFrame, ICOVERAGE, rawHist, lastStatus>>

NextConc ==
    \/ \E t \in Runners : ConcLockArgs(t)
    \/ \E t \in Runners : ConcSimMain(t)
    \/ \E t \in Runners : ConcViewLock(t)
    \/ \E t \in Runners : ConcViewReturn(t)
    \/ \E t \in Runners : ConcUpdateStats(t)
    \/ \E t \in Runners : ConcMergeLock(t)
    \/ \E t \in Runners : ConcMerge(t)
    \/ \E t \in Runners : ConcReturn(t)
    \/ ConcDisplayLock
    \/ ConcDisplay

SpecConc == InitConc /\ [][NextConc]_vars

\* ------------------------------------------------------------------------
\* Properties.  A fuzz_harness step is a step that changes harnessCalls.
HarnessStep == harnessCalls' # harnessCalls
\* the file store_testcase writes for bytes when no name is given
ErrorsPath(bytes) == <<"errors", Md5Hex(bytes)>>
\* the files of a directory that hold bytes
FilesWith(files, dir, bytes) ==
    {q \in DOMAIN files : q[1] = dir /\ files[q] = bytes}
acc == ICOVERAGE.accumulated
points == ICOVERAGE.cover_points
LastRan == callRan[Len(callRan)]

\* C1 as stated: when fuzz_harness terminates the process on a non-zero
\* status with continue_on_error = false and save_errors = true, the bytes
\* that triggered it are already stored under "errors".
C1_Stated ==
    (pc = "panicked" /\ verdict = "Crash" /\ SAVE_ERRORS)
        => \E q \in DOMAIN fs :
              q[1] = "errors" /\ fs[q] \in {lastInput, lastEffective}

\* C1 amended: a fuzz_harness invocation with continue_on_error = false and a
\* non-zero status terminates the process in that invocation without calling
\* store_testcase, whatever save_errors is; an invocation writes under
\* "errors" only when continue_on_error and save_errors are set and the
\* status is non-zero, and then the bytes the engine passed are on disk when
\* the invocation ends, also when it ends the process for the run budget.
C1_CrashSkipsStore ==
    [][HarnessStep =>
        /\ (lastStatus' # 0 /\ ~CONTINUE_ON_ERRORS)
              => (pc' = "panicked" /\ verdict' = "Crash" /\ fs' = fs
                  /\ stored' = "none")
        /\ (lastStatus' # 0 /\ CONTINUE_ON_ERRORS /\ SAVE_ERRORS)
              => (stored' # "none"
                  /\ ErrorsPath(lastInput') \in DOMAIN fs'
                  /\ fs'[ErrorsPath(lastInput')] = lastInput')
        /\ (fs' # fs \/ stored' # "none")
              => (lastStatus' # 0 /\ CONTINUE_ON_ERRORS /\ SAVE_ERRORS)
    ]_vars

\* a crash with save_errors set, and nothing under "errors"
C1_Witness ==
    /\ pc = "panicked" /\ verdict = "Crash"
    /\ SAVE_ERRORS /\ ~CONTINUE_ON_ERRORS /\ lastStatus # 0
    /\ \A q \in DOMAIN fs : q[1] # "errors"

\* C2 as stated: after k fuzz_harness invocations, finished or aborted,
\* NUM_RUNS = k.
C2_Stated == NUM_RUNS = harnessCalls

\* C2 amended: NUM_RUNS increases by exactly one in every fuzz_harness
\* invocation that is not terminated as a crash, the one that ends the
\* process for the run budget included; the invocation that ends the
\* process as a crash leaves NUM_RUNS unchanged.  After k invocations
\* NUM_RUNS = k, or k - 1 when the k-th was the crash.
C2_CountsAllButCrash ==
    /\ NUM_RUNS = harnessCalls - (IF verdict = "Crash" THEN 1 ELSE 0)
    /\ verdict = "Crash" => pc = "panicked"
    /\ verdict = "Budget" => (pc = "panicked" /\ NUM_RUNS >= MAX_RUNS)

\* the second invocation or a later one crashed: it is not counted
C2_Witness ==
    /\ pc = "panicked" /\ verdict = "Crash"
    /\ harnessCalls >= 2 /\ NUM_RUNS = harnessCalls - 1

\* C3 as stated: with max_runs = N >= 1 and only zero-status runs, each of
\* the first N invocations returns Ok.
C3_Stated ==
    (~harnessFailed /\ MAX_RUNS >= 1 /\ harnessCalls \in 1..MAX_RUNS)
        => verdict = "Ok"

\* C3 amended: with max_runs = N >= 1 and only zero-status runs, each of the
\* first N - 1 invocations runs the simulator and returns Ok, and the N-th
\* invocation runs the simulator and then terminates the process; there is
\* no (N+1)-th invocation and no (N+1)-th simulator call.
C3_NthRunStops ==
    (~harnessFailed /\ MAX_RUNS >= 1 /\ harnessCalls >= 1)
        => /\ harnessCalls <= MAX_RUNS
           /\ NUM_RUNS = harnessCalls
           /\ harnessCalls < MAX_RUNS => (verdict = "Ok" /\ pc # "panicked")
           /\ harnessCalls = MAX_RUNS
                 => (verdict = "Budget" /\ pc = "panicked")

\* max_runs = 3: the third zero-status run ended the process
C3_Witness ==
    /\ MAX_RUNS = 3 /\ harnessCalls = 3 /\ ~harnessFailed
    /\ verdict = "Budget" /\ pc = "panicked"

\* C4: with auto_exit, sim_run_multiple runs the workloads in list order up
\* to and including the first one that fails, runs none after it, and
\* returns the status of that workload, 0 when none fails.
C4_AutoExitStopsAtFirstFailure ==
    (args.auto_exit /\ callRan # <<>>)
        => /\ Len(callRan) <= Len(args.workloads)
           /\ \A k \in 1..Len(callRan) : callRan[k][1] = args.workloads[k]
           /\ \A k \in 1..(Len(callRan) - 1) : callRan[k][2] = 0
           /\ LastRan[2] # 0 => callDone
           /\ callDone
                 => /\ ret = LastRan[2]
                    /\ ret = 0 => Len(callRan) = Len(args.workloads)

\* the first of two workloads failed and the call returned its status
C4_Witness ==
    /\ args.auto_exit /\ callDone
    /\ Len(args.workloads) = 2 /\ Len(callRan) = 1
    /\ callRan[1][2] = 2 /\ ret = 2

\* C5: without auto_exit, sim_run_multiple runs every workload once in list
\* order whatever the earlier statuses, prints each failure when it happens,
\* and returns the status of the last workload.
C5_NoAutoExitReturnsLast ==
    (~args.auto_exit /\ callRan # <<>>)
        => /\ Len(callRan) <= Len(args.workloads)
           /\ \A k \in 1..Len(callRan) : callRan[k][1] = args.workloads[k]
           /\ callDone <=> Len(callRan) = Len(args.workloads)
           /\ callDone => ret = LastRan[2]
           /\ op = "sim_run_multiple"
                 => (LastRan[2] # 0 <=>
                        \E k \in 1..Len(out) :
                            out[k] = [ev |-> "abnormal",
                                      workload |-> LastRan[1],
                                      code |-> LastRan[2]])

\* the first of two workloads failed, the second ran and its 0 is returned
C5_Witness ==
    /\ ~args.auto_exit /\ callDone
    /\ Len(callRan) = 2 /\ callRan[1][2] # 0 /\ callRan[2][2] = 0
    /\ ret = 0

\* C6: when main returns in direct mode, its exit code is 0 exactly when
\* every workload run returned status 0.
C6_Stated ==
    (pc = "exited" /\ op \in {"sim_run_multiple", "main_return"})
        => (exit_code = 0 <=> ~runFailed)

\* C7: a position of accumulated that is 1 stays 1, whatever is called next.
C7_AccumulatedMonotonic ==
    [][\A i \in DOMAIN acc :
          acc[i] = 1 => (i \in DOMAIN acc' /\ acc'[i] = 1)]_vars

\* set_sim_env was called again after a run, and the position is still 1
C7_Witness ==
    /\ envCalls >= 2 /\ op = "set_sim_env"
    /\ \E i \in DOMAIN acc : acc[i] = 1

\* C8: after every run, failed or not, accumulated is the union of the runs:
\* a position is non-zero exactly when some run left its counter non-zero.
C8_AccumulatedIsUnion ==
    ICOVERAGE.set =>
        \A i \in 1..Len(acc) : acc[i] # 0 <=> i \in everRaw

\* a run, direct or of fuzz_harness, failed and its counter is merged
C8_Witness ==
    /\ lastStatus # 0 /\ op \in {"sim_run_multiple", "fuzz_harness"}
    /\ \E i \in 1..Len(acc) : points[i] # 0 /\ acc[i] = 1

\* C9: cover_accumulate changes accumulated only where cover_points is
\* non-zero, leaves cover_points alone, and a second call right after it
\* changes nothing: same accumulated, same coverage.
C9_AccumulateIdempotent ==
    [][(op' \in {"cover_accumulate", "sim_run"} /\ ICOVERAGE'.set) =>
        /\ op' = "cover_accumulate" => points' = points
        /\ \A i \in DOMAIN acc' :
              acc'[i] # acc[i] => (points'[i] # 0 /\ acc'[i] = 1)
        /\ Accumulate(ICOVERAGE').accumulated = acc'
        /\ Accumulate(ICOVERAGE').cover_points = points'
        /\ GetAccumulativeCoverage(Accumulate(ICOVERAGE'))
              = GetAccumulativeCoverage(ICOVERAGE')
    ]_vars

\* cover_accumulate was called on a map with one position covered by the
\* last run and one never covered
C9_Witness ==
    /\ op = "cover_accumulate" /\ ICOVERAGE.set
    /\ \E i, j \in DOMAIN acc :
          points[i] # 0 /\ acc[i] = 1 /\ points[j] = 0 /\ acc[j] = 0

\* C10: store_testcase without a name writes a file that reads back as the
\* bytes, under a name that depends on the bytes only: storing the same
\* bytes again leaves the directory as it is, with one file for them, and
\* no file of other bytes is touched.
C10_StoreRoundTrip ==
    [][(HarnessStep /\ stored' # "none") =>
        /\ ErrorsPath(lastInput') \in DOMAIN fs'
        /\ fs'[ErrorsPath(lastInput')] = lastInput'
        /\ Cardinality(FilesWith(fs', "errors", lastInput')) = 1
        /\ DOMAIN fs' = DOMAIN fs \cup {ErrorsPath(lastInput')}
        /\ \A q \in DOMAIN fs : fs[q] # lastInput' => fs'[q] = fs[q]
        /\ FilesWith(fs, "errors", lastInput') # {}
              => (fs' = fs /\ stored' = "again")
    ]_vars

\* the same bytes were stored a second time, beside a file of other bytes
C10_Witness ==
    /\ op = "fuzz_harness" /\ stored = "again"
    /\ Cardinality(DOMAIN fs) >= 2
    /\ Cardinality(FilesWith(fs, "errors", lastInput)) = 1

\* C11: when fuzz_harness stores the input of a failing run under "errors",
\* the file holds the bytes that run executed: in random-input mode the
\* random buffer, not the bytes the engine passed.
C11_Stated ==
    (op = "fuzz_harness" /\ stored # "none")
        => FilesWith(fs, "errors", lastEffective) # {}

\* C12: every fuzz_harness invocation decides in this order: a non-zero
\* status without continue_on_errors ends the process as a crash in that
\* invocation, NUM_RUNS untouched; otherwise NUM_RUNS is incremented and the
\* process ends for the budget exactly when the new NUM_RUNS >= MAX_RUNS;
\* otherwise Ok is returned.  So Ok is returned exactly when (the status is
\* 0 or continue_on_errors is set) and the new NUM_RUNS < MAX_RUNS, and with
\* continue_on_errors a non-zero status alone never ends the process.
C12_OutcomeOrder ==
    [][HarnessStep =>
        LET crash == lastStatus' # 0 /\ ~CONTINUE_ON_ERRORS
        IN  /\ verdict' \in {"Crash", "Budget", "Ok"}
            /\ crash => (verdict' = "Crash" /\ pc' = "panicked"
                         /\ NUM_RUNS' = NUM_RUNS)
            /\ ~crash => /\ NUM_RUNS' = NUM_RUNS + 1
                         /\ verdict' = "Budget" <=> NUM_RUNS' >= MAX_RUNS
                         /\ verdict' = "Ok" <=> NUM_RUNS' < MAX_RUNS
            /\ verdict' = "Ok" <=> ((lastStatus' = 0 \/ CONTINUE_ON_ERRORS)
                                       /\ NUM_RUNS + 1 < MAX_RUNS)
            /\ pc' = "panicked" <=> verdict' # "Ok"
            /\ verdict' = "Ok" => pc' = pc
            /\ (CONTINUE_ON_ERRORS /\ lastStatus' # 0
                    /\ NUM_RUNS + 1 < MAX_RUNS) => pc' # "panicked"
    ]_vars

\* with continue_on_errors the second run failed and Ok was returned
C12_Witness ==
    /\ op = "fuzz_harness" /\ CONTINUE_ON_ERRORS /\ lastStatus # 0
    /\ harnessCalls = 2 /\ NUM_RUNS = 2 /\ verdict = "Ok"
    /\ pc \in {"corpus", "loop"}

\* C13 as stated: after every fuzz_harness run a position reads as covered
\* through the observer exactly when accumulated has it covered.
C13_Stated ==
    op = "fuzz_harness"
        => \A i \in 1..Len(acc) : Observed(ICOVERAGE)[i] # 0 <=> acc[i] # 0

\* C13 amended: after every fuzz_harness run the observer reads the counters
\* update_stats wrote for that run, value by value; a position it reads as
\* covered is covered in accumulated, and a position covered by earlier
\* runs only reads 0.
C13_ObservesLastRun ==
    harnessCalls >= 1
        => /\ Observed(ICOVERAGE) = lastRaw
           /\ \A i \in 1..Len(acc) :
                 /\ Observed(ICOVERAGE)[i] # 0 => acc[i] # 0
                 /\ (i \in everRaw /\ lastRaw[i] = 0)
                       => (Observed(ICOVERAGE)[i] = 0 /\ acc[i] = 1)

\* an earlier run covered a position that the last fuzz_harness run did not
C13_Witness ==
    /\ op = "fuzz_harness" /\ harnessCalls >= 2
    /\ \E i \in 1..Len(acc) : Observed(ICOVERAGE)[i] = 0 /\ acc[i] = 1

\* C14: a thread in sim_run holds the mutex of ICOVERAGE from the moment it
\* has the counters view until its merge is complete, so between the
\* counter write of a run and its merge no other thread is inside an
\* operation on the coverage map.
C14_Stated ==
    \A r \in Runners :
        /\ threads[r].pc \in {"view_locked", "viewed", "written",
                               "merge_locked"}
              => mutex.ICOVERAGE = r
        /\ threads[r].pc = "written" => mutex.ICOVERAGE \in {"none", r}

\* what out holds: the events of one kind
Printed(kind) == {k \in 1..Len(out) : out[k].ev = kind}

\* C15: with a counter count of 0 no run is executed and no coverage
\* percentage is printed: the process stops at setup.
C15_Stated ==
    (ICOVERAGE.set /\ CoverLen(ICOVERAGE) = 0)
        => /\ op \notin {"sim_run_multiple", "fuzz_harness"}
           /\ Printed("coverage") = {}

\* C16 as stated: every run, direct or of fuzz_harness, is followed by a
\* coverage line, and a failing run by a line with its exit code.
C16_Stated ==
    op \in {"sim_run_multiple", "fuzz_harness"}
        => /\ Printed("coverage") # {}
           /\ lastStatus # 0
                 => \E k \in Printed("abnormal") : out[k].code = lastStatus

\* C16 amended: a fuzz_harness run prints the cumulative coverage first,
\* before any abort, and never a workload or an exit code; a direct run
\* prints its workload and exit code right after it exactly when it failed,
\* and the coverage is printed after it only when it was the last run of
\* the last repetition and main did not return early.
C16_PrintsPerMode ==
    /\ op = "fuzz_harness"
          => /\ out[1] = Display(ICOVERAGE)
             /\ Printed("coverage") = {1}
             /\ Printed("abnormal") = {}
    /\ op = "sim_run_multiple"
          => /\ lastStatus # 0
                   => (Printed("abnormal") = {1}
                       /\ out[1] = [ev |-> "abnormal", workload |-> LastRan[1],
                                    code |-> lastStatus])
             /\ lastStatus = 0 => Printed("abnormal") = {}
             /\ Printed("coverage") # {} <=> pc = "post_direct"
             /\ pc = "post_direct"
                   => (Printed("coverage") = {Len(out)}
                       /\ out[Len(out)] = Display(ICOVERAGE))

\* a direct run failed and main goes on: its workload and exit code are
\* printed, the coverage is not
C16_Witness ==
    /\ op = "sim_run_multiple" /\ lastStatus # 0 /\ pc = "direct"
    /\ Printed("abnormal") = {1} /\ Printed("coverage") = {}

\* C17 as stated: when run_fuzzer is called with random_input set, every
\* fuzz_harness invocation, those of the initial corpus included, runs a
\* random buffer of 1024 bytes; when it is not set, every invocation runs
\* the bytes of the engine.
C17_Stated ==
    op = "fuzz_harness"
        => IF args.random_input
           THEN lastEffective \in RandomBuffers
           ELSE lastEffective = lastInput

\* C17 amended: the invocations that execute the initial corpus run the
\* bytes of the engine whatever random_input is; the invocations of the
\* fuzzing loop run a fresh random buffer of 1024 bytes when random_input
\* is set and the bytes of the engine when it is not.
C17_RandomAfterCorpus ==
    [][HarnessStep =>
        /\ pc = "corpus" => (~USE_RANDOM_INPUT /\ lastEffective' = lastInput')
        /\ pc = "loop" => USE_RANDOM_INPUT = args.random_input
        /\ (pc = "loop" /\ args.random_input)
              => (lastEffective' \in RandomBuffers
                  /\ lastEffective'.len = RANDOM_LEN)
        /\ (pc = "loop" /\ ~args.random_input)
              => lastEffective' = lastInput'
    ]_vars

\* random_input is set: the corpus ran the bytes of the engine, the loop
\* a random buffer
C17_Witness ==
    /\ op = "fuzz_harness" /\ args.random_input /\ USE_RANDOM_INPUT
    /\ harnessCalls >= 2
    /\ lastEffective \in RandomBuffers /\ lastEffective # lastInput

\* C18: a call of set_sim_env after the first one changes neither MAX_RUNS
\* nor SIM_ARGS nor the coverage map, or it aborts.
C18_Stated ==
    [][(envCalls >= 1 /\ envCalls' = envCalls + 1)
          => \/ pc' = "panicked"
             \/ (MAX_RUNS' = MAX_RUNS /\ SIM_ARGS' = SIM_ARGS
                 /\ ICOVERAGE' = ICOVERAGE)]_vars

\* C19: fuzz_harness never calls the simulator more often than MAX_RUNS,
\* MAX_RUNS = 0 included (every invocation calls it once); a direct run
\* leaves NUM_RUNS alone.
C19_Stated ==
    /\ harnessCalls <= MAX_RUNS
    /\ op = "sim_run_multiple" => NUM_RUNS = 0

\* C20: with continue_on_errors and save_errors, when the invocation that
\* uses up the budget ran a failing input, store_testcase has written the
\* file before NUM_RUNS is incremented, before display_uncovered_points and
\* before the panic that ends the process.
C20_StoreBeforeBudgetStop ==
    [][(HarnessStep /\ CONTINUE_ON_ERRORS /\ SAVE_ERRORS /\ lastStatus' # 0
            /\ NUM_RUNS + 1 >= MAX_RUNS)
        => /\ verdict' = "Budget" /\ pc' = "panicked"
           /\ NUM_RUNS' = NUM_RUNS + 1
           /\ stored' # "none"
           /\ ErrorsPath(lastInput') \in DOMAIN fs'
           /\ fs'[ErrorsPath(lastInput')] = lastInput'
           /\ ~USE_RANDOM_INPUT => fs'[ErrorsPath(lastInput')] = lastEffective'
           /\ out' = <<Display(ICOVERAGE'), Stored, Counted,
                       Println("Exit due to max_runs == 0"), Uncovered,
                       Panic("Exit due to max_runs == 0")>>
    ]_vars

\* the second run failed and used up the budget: its file is new on disk
C20_Witness ==
    /\ pc = "panicked" /\ verdict = "Budget"
    /\ CONTINUE_ON_ERRORS /\ SAVE_ERRORS /\ lastStatus # 0
    /\ harnessCalls = 2 /\ MAX_RUNS = 2 /\ stored = "new"
    /\ ErrorsPath(lastInput) \in DOMAIN fs

====
